---- MODULE Spec2Model ----
(***************************************************************************)
(* A model of fetch_fin_escalations.py: the text normalizer strip_html,    *)
(* the transcript splitter split (with first_assignment), and the          *)
(* collection run (run_search, ingest, the two CSV writes).                *)
(*                                                                         *)
(* Representation.  A Python str is a sequence of one-character strings.   *)
(* A Python dict is a function whose DOMAIN is the set of keys present, so *)
(* "k in d" is  k \in DOMAIN d  and d.get(k, dflt) is Get(d, k, dflt).      *)
(* A JSON list is List(s) = [items |-> s].  JSON null is NullV where a dict *)
(* or a list is expected, Null (the integer -1; timestamps are >= 0) where *)
(* a timestamp is, and NoneV where an identifier or a type name is; the    *)
(* last two are also what d.get(k) gives for a key that is absent.         *)
(* A function that returns a value or raises gives Raised (integers),      *)
(* "raise" (truth values, as "true" and "false") or a record whose raised  *)
(* field is TRUE when it raises.                                           *)
(***************************************************************************)
EXTENDS Integers, Sequences, FiniteSets, TLC

VARIABLES
    \* --- strip_html applied once and twice to an input string
    npc, x, out1, out2,
    \* --- split applied to one conversation detail
    spc, conv, res,
    \* --- the collection run
    pc, esc, low, cur, after, pg, pgi, nxt, seen, user_rows, convo_rows,
    files, events

normVars  == <<npc, x, out1, out2>>
splitVars == <<spc, conv, res>>
runVars   == <<pc, esc, low, cur, after, pg, pgi, nxt, seen, user_rows,
               convo_rows, files, events>>
vars      == <<normVars, splitVars, runVars>>

----------------------------------------------------------------------------
(* Generic helpers *)

Get(d, k, dflt) == IF k \in DOMAIN d THEN d[k] ELSE dflt

SeqsUpTo(S, n) == UNION {[1..k -> S] : k \in 0..n}

RECURSIVE Flatten(_)
Flatten(ss) == IF ss = <<>> THEN <<>> ELSE Head(ss) \o Flatten(Tail(ss))

----------------------------------------------------------------------------
(* 6. UTILITIES: strip_html *)

\* U+00A0, what html.unescape makes of &nbsp; ; str.strip() removes it.
NBSP == "U+00A0"

\* The characters str.strip() removes (those of them the model's strings hold).
IsSpace(c) == c \in {" ", "\t", "\n", "\r", "\f", NBSP}

\* TAG_RE = <[^>]+> : a match starting at t[i] = "<" ends at the first ">"
\* after i, and needs at least one character in between.  0 when no match.
TagEnd(t, i) ==
    LET closers == {j \in (i+1)..Len(t) : t[j] = ">"}
        first   == CHOOSE j \in closers : \A k \in closers : j <= k
    IN  IF t[i] # "<" \/ closers = {} THEN 0
        ELSE IF first >= i + 2 THEN first ELSE 0

\* TAG_RE.sub("", t): leftmost, non-overlapping matches are deleted.
RECURSIVE TagSubFrom(_, _)
TagSubFrom(t, i) ==
    IF i > Len(t) THEN <<>>
    ELSE IF TagEnd(t, i) # 0 THEN TagSubFrom(t, TagEnd(t, i) + 1)
    ELSE <<t[i]>> \o TagSubFrom(t, i + 1)

TagSub(t) == TagSubFrom(t, 1)

\* html.unescape: the named references  &name;?  of html.entities.html5
\* that the model's strings can spell.  The legacy names are in the table
\* both with and without the semicolon.
Html5Keys ==
    { <<"a","m","p",";">>, <<"a","m","p">>,
      <<"l","t",";">>,     <<"l","t">>,
      <<"g","t",";">>,     <<"g","t">>,
      <<"n","b","s","p",";">>, <<"n","b","s","p">> }

Html5(k) ==
    IF k[1] = "a" THEN <<"&">>
    ELSE IF k[1] = "l" THEN <<"<">>
    ELSE IF k[1] = "g" THEN <<">">>
    ELSE <<NBSP>>

\* The characters a reference name cannot hold: [^\t\n\f <&#;]
NameStop == {"\t", "\n", "\f", " ", "<", "&", "#", ";"}

\* Length of the name matched after the "&" at t[i]: greedy, 1..32, 0 if none.
NameLen(t, i) ==
    LET ok(k) == \A j \in (i+1)..(i+k) : j <= Len(t) /\ t[j] \notin NameStop
        ks    == {k \in 1..32 : ok(k)}
    IN  IF ks = {} THEN 0 ELSE CHOOSE k \in ks : \A m \in ks : m <= k

\* The text matched after "&": the name and the optional ";".
RefToken(t, i) ==
    LET n   == NameLen(t, i)
        end == IF i + n + 1 <= Len(t) /\ t[i + n + 1] = ";"
               THEN i + n + 1 ELSE i + n
    IN  SubSeq(t, i + 1, end)

\* _replace_charref: the whole token if it is a name, else its longest
\* prefix of length >= 2 that is one (followed by the rest), else unchanged.
ReplaceCharref(s) ==
    LET pre == {n \in 2..(Len(s) - 1) : SubSeq(s, 1, n) \in Html5Keys}
        n   == CHOOSE m \in pre : \A k \in pre : k <= m
    IN  IF s \in Html5Keys THEN Html5(s)
        ELSE IF pre # {} THEN Html5(SubSeq(s, 1, n)) \o SubSeq(s, n + 1, Len(s))
        ELSE <<"&">> \o s

RECURSIVE UnescapeFrom(_, _)
UnescapeFrom(t, i) ==
    IF i > Len(t) THEN <<>>
    ELSE IF t[i] = "&" /\ NameLen(t, i) > 0
         THEN ReplaceCharref(RefToken(t, i))
              \o UnescapeFrom(t, i + 1 + Len(RefToken(t, i)))
    ELSE <<t[i]>> \o UnescapeFrom(t, i + 1)

Unescape(t) == UnescapeFrom(t, 1)

\* str.strip()
RECURSIVE LStrip(_)
LStrip(t) == IF t # <<>> /\ IsSpace(Head(t)) THEN LStrip(Tail(t)) ELSE t

RECURSIVE RStrip(_)
RStrip(t) ==
    IF t # <<>> /\ IsSpace(t[Len(t)]) THEN RStrip(SubSeq(t, 1, Len(t) - 1))
    ELSE t

Strip(t) == RStrip(LStrip(t))

\* A slip in the order of the calls: trimmed before the entities are decoded.
strip_html_TrimFirst(t) == Unescape(Strip(TagSub(t)))

\* html.unescape(TAG_RE.sub("", t or "")).strip() ; an absent or null body
\* reaches it as the empty string.
strip_html(t) == Strip(Unescape(TagSub(t)))

----------------------------------------------------------------------------
(* JSON values *)

NullV   == [null |-> TRUE]
IsNull(d) == "null" \in DOMAIN d
Dict0   == [k \in {} |-> 0]             \* {}
List(s) == [items |-> s]
Null    == -1
\* In place of an integer result: the call raised.
Raised  == -2
NoneV   == "<None>"

\* Python truthiness of a dict-valued field: None and {} are false.
TruthyDict(d) == ~IsNull(d) /\ DOMAIN d # {}
\* ... of an optional timestamp: None and 0 are false.
TruthyInt(v) == v # Null /\ v # 0
\* ... of an optional identifier: None and "" are false.
TruthyId(v) == v # NoneV /\ v # ""

----------------------------------------------------------------------------
(* first_assignment and split *)

\* for p in parts: if p.get("part_type")=="assignment" and "created_at" in p:
\*     return p["created_at"]          -- else None
\* p.get raises on a null element of the list, if the scan gets to it.
RECURSIVE first_assignment(_)
first_assignment(parts) ==
    IF parts = <<>> THEN Null
    ELSE LET p == Head(parts)
         IN  IF IsNull(p) THEN Raised
             ELSE IF /\ Get(p, "part_type", NoneV) = "assignment"
                     /\ "created_at" \in DOMAIN p
             THEN p["created_at"]
             ELSE first_assignment(Tail(parts))

\* Line 79-80: raises when ai_agent is null (None has no .get).
FinIdRaises(c) == IsNull(Get(c, "ai_agent", Dict0))

\* (conv.get("ai_agent", {}).get("actor", {}) or conv.get("ai_agent", {})).get("id")
FinId(c) ==
    LET agent == Get(c, "ai_agent", Dict0)
        actor == Get(agent, "actor", Dict0)
        base  == IF TruthyDict(actor) THEN actor ELSE agent
    IN  Get(base, "id", NoneV)

\* root = conv.get("conversation_message") or conv.get("source")
Root(c) ==
    LET m == Get(c, "conversation_message", NullV)
    IN  IF TruthyDict(m) THEN m ELSE Get(c, "source", NullV)

\* Line 85: raises when conversation_parts, or the list inside it, is null.
PartsRaises(c) ==
    LET outer == Get(c, "conversation_parts", Dict0)
    IN  \/ IsNull(outer)
        \/ IsNull(Get(outer, "conversation_parts", List(<<>>)))

\* parts = [root] if root else [] ; parts += conv.get(...).get(..., [])
Parts(c) ==
    LET outer == Get(c, "conversation_parts", Dict0)
        inner == Get(outer, "conversation_parts", List(<<>>))
    IN  (IF TruthyDict(Root(c)) THEN <<Root(c)>> ELSE <<>>) \o inner.items

\* Lines 96-102, the `or` chain left to right: "true", "false", or "raise"
\* when a.get is reached with the author null.
is_fin(p, fin_id) ==
    LET a == Get(p, "author", Dict0)
    IN  IF \/ Get(p, "part_type", NoneV) = "ai_answer"
           \/ "ai_answer_type" \in DOMAIN p
        THEN "true"
        ELSE IF IsNull(a) THEN "raise"
        ELSE IF \/ Get(a, "type", NoneV) = "bot"
                \/ (TruthyId(fin_id) /\ Get(a, "id", NoneV) = fin_id)
        THEN "true"
        ELSE "false"

\* Line 105: "true", "false", or "raise" when the author is null.
is_customer(p) ==
    LET a == Get(p, "author", Dict0)
    IN  IF IsNull(a) THEN "raise"
        ELSE IF Get(a, "type", NoneV) \in {"contact", "user", "lead"} THEN "true"
        ELSE "false"

\* A slip in the order of the branches: the customer test made first.
Classify_CustomerFirst(p, fin_id) ==
    IF is_customer(p) = "raise" THEN "raise"
    ELSE IF is_customer(p) = "true" THEN "user"
    ELSE IF is_fin(p, fin_id) = "true" THEN "fin"
    ELSE "none"

\* Lines 96-106: which branch a part with a non-empty body takes, or
\* "raise".
Classify(p, fin_id) ==
    IF is_fin(p, fin_id) = "raise" THEN "raise"
    ELSE IF is_fin(p, fin_id) = "true" THEN "fin"
    ELSE IF is_customer(p) = "raise" THEN "raise"
    ELSE IF is_customer(p) = "true" THEN "user"
    ELSE "none"

\* A slip in the literal: one space after the tag.
FinTag_OneSpace == <<"[", "F", "i", "n", "]", " ">>

\* f"[Fin]  {body}" and f"[User] {body}"
FinTag  == <<"[", "F", "i", "n", "]", " ", " ">>
UserTag == <<"[", "U", "s", "e", "r", "]", " ">>

\* if cutoff and ts and ts >= cutoff: break
Breaks(cutoff, ts) == TruthyInt(cutoff) /\ TruthyInt(ts) /\ ts >= cutoff

\* The loop of lines 90-106 from part i on.  acc holds user_lines and
\* convo_lines; acc.marks records, for every part the loop has handled, the
\* branch it took ("cut" is a part the loop never got to handle);
\* acc.raised is set when the loop raises: at line 91 on a null element of
\* the list, at line 100 on a null author.
RECURSIVE SplitLoop(_, _, _, _, _)
SplitLoop(parts, i, cutoff, fin_id, acc) ==
    IF i > Len(parts) THEN acc
    ELSE IF IsNull(parts[i]) THEN [acc EXCEPT !.raised = TRUE]
    ELSE
      LET p    == parts[i]
          ts   == Get(p, "created_at", Null)
          body == strip_html(Get(p, "body", <<>>))
          cls  == IF body = <<>> THEN "empty" ELSE Classify(p, fin_id)
          next == [ raised      |-> FALSE,
                    user_lines  |->
                      IF cls = "user" THEN Append(acc.user_lines, body)
                      ELSE acc.user_lines,
                    convo_lines |->
                      IF cls = "fin" THEN Append(acc.convo_lines, FinTag \o body)
                      ELSE IF cls = "user"
                           THEN Append(acc.convo_lines, UserTag \o body)
                      ELSE acc.convo_lines,
                    marks       |-> [acc.marks EXCEPT ![i] = cls] ]
      IN  IF Breaks(cutoff, ts) THEN acc
          ELSE IF cls = "raise" THEN [acc EXCEPT !.raised = TRUE]
          ELSE SplitLoop(parts, i + 1, cutoff, fin_id, next)

\* "\n\n".join(lines)
RECURSIVE Join(_)
Join(lines) ==
    IF lines = <<>> THEN <<>>
    ELSE IF Len(lines) = 1 THEN lines[1]
    ELSE lines[1] \o <<"\n", "\n">> \o Join(Tail(lines))

\* split(conv): [raised |-> TRUE] when it raises, else the pair returned
\* (user, full) together with the locals the pair was computed from.
split(c) ==
    IF FinIdRaises(c) \/ PartsRaises(c) THEN [raised |-> TRUE]
    ELSE IF first_assignment(Parts(c)) = Raised THEN [raised |-> TRUE]
    ELSE
      LET parts  == Parts(c)
          cutoff == first_assignment(parts)
          fin_id == FinId(c)
          acc    == SplitLoop(parts, 1, cutoff, fin_id,
                        [ raised      |-> FALSE,
                          user_lines  |-> <<>>,
                          convo_lines |-> <<>>,
                          marks       |-> [i \in 1..Len(parts) |-> "cut"] ])
      IN  IF acc.raised THEN [raised |-> TRUE] ELSE
          [ raised |-> FALSE,
            user   |-> Join(acc.user_lines),
            full   |-> Join(acc.convo_lines),
            parts  |-> parts,
            cutoff |-> cutoff,
            fin_id |-> fin_id,
            user_lines  |-> acc.user_lines,
            convo_lines |-> acc.convo_lines,
            marks  |-> acc.marks ]

----------------------------------------------------------------------------
(* 7. COLLECT & DEDUP, 8. WRITE CSVs *)

Digits == <<"0", "1", "2", "3", "4", "5", "6", "7", "8", "9">>

\* n in decimal, zero-padded to w digits
RECURSIVE Pad(_, _)
Pad(n, w) == IF w = 0 THEN <<>> ELSE Pad(n \div 10, w - 1) \o <<Digits[(n % 10) + 1]>>

\* dt.datetime.utcfromtimestamp(ts).isoformat() for an integer ts >= 0:
\* YYYY-MM-DDTHH:MM:SS in the proleptic Gregorian calendar.
IsoFormat(ts) ==
    LET days == ts \div 86400
        secs == ts % 86400
        z    == days + 719468
        era  == z \div 146097
        doe  == z - era * 146097
        yoe  == (doe - doe \div 1460 + doe \div 36524 - doe \div 146096) \div 365
        doy  == doe - (365 * yoe + yoe \div 4 - yoe \div 100)
        mp   == (5 * doy + 2) \div 153
        d    == doy - (153 * mp + 2) \div 5 + 1
        m    == IF mp < 10 THEN mp + 3 ELSE mp - 9
        y    == yoe + era * 400 + (IF m <= 2 THEN 1 ELSE 0)
    IN  Pad(y, 4) \o <<"-">> \o Pad(m, 2) \o <<"-">> \o Pad(d, 2) \o <<"T">>
        \o Pad(secs \div 3600, 2) \o <<":">> \o Pad((secs % 3600) \div 60, 2)
        \o <<":">> \o Pad(secs % 60, 2)

\* The two search definitions, in the order the run issues them.
Searches == <<"ESCALATED", "LOW_CSAT">>

\* What the search collaborator holds for a query.
Results(q) == IF q = "ESCALATED" THEN esc ELSE low

\* The guard of line 125 left out.
AlreadySeen_Never(cid) == FALSE

\* if cid in seen: return
AlreadySeen(cid) == cid \in seen

\* rating = s["ai_agent"].get("rating") ; raises when the summary has no
\* ai_agent (KeyError) or a null one (AttributeError).
Rating(s) ==
    IF "ai_agent" \notin DOMAIN s \/ IsNull(Get(s, "ai_agent", Dict0)) THEN Raised
    ELSE Get(s["ai_agent"], "rating", Null)

\* Line 129 raises when created_at is missing or null, line 130 as Rating.
RowRaises(s) ==
    \/ Get(s, "created_at", Null) = Null
    \/ Rating(s) = Raised

\* Lines 131-132
user_row(s, r) ==
    [ id |-> s["id"], created_at |-> IsoFormat(s["created_at"]),
      rating |-> Rating(s), user_messages |-> r.user ]

\* The rating left out of the conversation rows.
convo_row_NoRating(s, r) ==
    [ id |-> s["id"], created_at |-> IsoFormat(s["created_at"]),
      rating |-> Null, full_conversation |-> r.full ]

\* Lines 133-134
convo_row(s, r) ==
    [ id |-> s["id"], created_at |-> IsoFormat(s["created_at"]),
      rating |-> Rating(s), full_conversation |-> r.full ]

----------------------------------------------------------------------------
(* strip_html on bounded inputs *)

\* Pieces the input strings are made of.
Chunks ==
    { <<"<">>, <<">">>, <<"&">>, <<" ">>, <<"b">>,
      <<"l","t",";">>,
      <<"&","l","t",";">>, <<"&","g","t",";">>,
      <<"&","a","m","p",";">>, <<"&","n","b","s","p",";">> }

\* Number of pieces in an input string.
MaxChunks == 3

NormInputs == {Flatten(cs) : cs \in SeqsUpTo(Chunks, MaxChunks)}

NormIdle == npc = "off" /\ x = <<>> /\ out1 = <<>> /\ out2 = <<>>

Normalize ==
    /\ npc = "in"
    /\ out1' = strip_html(x)
    /\ npc' = "once"
    /\ UNCHANGED <<x, out2, splitVars, runVars>>

Renormalize ==
    /\ npc = "once"
    /\ out2' = strip_html(out1)
    /\ npc' = "twice"
    /\ UNCHANGED <<x, out1, splitVars, runVars>>

----------------------------------------------------------------------------
(* split on bounded inputs *)

\* Largest timestamp of a part.
MaxTs == 2
\* Most conversation parts in a detail.
MaxParts == 3

HiHtml   == <<"<", "p", ">", "H", "i", "<", "/", "p", ">">>
HelloAmp == <<"H", "e", "l", "l", "o", "&", "a", "m", "p", ";">>
Yo       == <<"y", "o">>

Contact == [type |-> "contact", id |-> "u1"]
Admin   == [type |-> "admin", id |-> "a1"]

\* created_at: absent, or a timestamp
TsAbsentOr(S) == {Dict0} \cup {[created_at |-> t] : t \in S}

\* The parts the timelines are made of: hand-offs with and without a usable
\* timestamp, customer and agent messages, a human reply, a blank message.
PartPool ==
    {[part_type |-> "assignment"] @@ k : k \in TsAbsentOr({Null} \cup 0..MaxTs)}
    \cup {[part_type |-> "comment", author |-> Contact, body |-> HiHtml] @@ k :
             k \in TsAbsentOr(0..MaxTs)}
    \cup {[part_type |-> "ai_answer", body |-> HelloAmp] @@ k :
             k \in TsAbsentOr({1})}
    \cup { [part_type |-> "comment", author |-> Admin, body |-> Yo,
            created_at |-> MaxTs],
           [part_type |-> "comment", author |-> Contact, body |-> <<" ">>,
            created_at |-> 1],
           [part_type |-> "assignment", author |-> Contact, body |-> Yo] }

\* Root messages (they carry no part_type).
RootPool ==
    { [author |-> Contact, body |-> HiHtml],
      [author |-> Contact, body |-> HiHtml, created_at |-> MaxTs],
      [author |-> [type |-> "bot", id |-> "fin"], body |-> HelloAmp,
       created_at |-> 0] }

Timelines ==
    {[conversation_parts |-> [conversation_parts |-> List(ps)]] :
        ps \in SeqsUpTo(PartPool, MaxParts)}

Rooted ==
    {[conversation_parts |-> [conversation_parts |-> List(ps)]] @@ r :
        ps \in SeqsUpTo(PartPool, MaxParts - 1),
        r \in {[source |-> m] : m \in RootPool}
              \cup { [conversation_message |-> [author |-> Contact, body |-> HiHtml]],
                     [conversation_message |-> Dict0,
                      source |-> [author |-> Contact, body |-> HiHtml]],
                     [conversation_message |-> [author |-> Admin, body |-> Yo],
                      source |-> [author |-> Contact, body |-> HiHtml]] }}

\* One part carrying every combination of the authorship signals, under
\* every way the agent's identifier can be given.
Authors ==
    { Dict0,
      [type |-> "bot", id |-> "b1"],
      [type |-> "contact", id |-> "u1"],
      [type |-> "contact", id |-> "fin"],
      [type |-> "user"],
      [type |-> "lead", id |-> "u1"],
      [type |-> "admin", id |-> "a1"],
      [type |-> "admin", id |-> "fin"],
      [id |-> "fin"],
      NullV }

SignalParts ==
    {[part_type |-> t, body |-> Yo, created_at |-> 1] @@ au @@ mk :
        t  \in {"comment", "ai_answer"},
        au \in {Dict0} \cup {[author |-> a] : a \in Authors},
        mk \in {Dict0, [ai_answer_type |-> "ai_answer"]}}

Agents ==
    { Dict0,
      [ai_agent |-> Dict0],
      [ai_agent |-> [actor |-> [id |-> "fin"]]],
      [ai_agent |-> [id |-> "fin"]],
      [ai_agent |-> [actor |-> NullV, id |-> "fin"]],
      [ai_agent |-> [actor |-> Dict0, id |-> "fin"]],
      [ai_agent |-> [actor |-> [id |-> "b1"], id |-> "fin"]],
      [ai_agent |-> [actor |-> [type |-> "bot"], id |-> "fin"]] }

Signals ==
    {[conversation_parts |-> [conversation_parts |-> List(<<p>>)]] @@ ag :
        p \in SignalParts, ag \in Agents}

\* Details with no root message and no parts, every field absent, null or
\* empty in turn.
Malformed ==
    {ag @@ cp @@ r :
        ag \in Agents \cup {[ai_agent |-> NullV]},
        cp \in { Dict0,
                 [conversation_parts |-> NullV],
                 [conversation_parts |-> Dict0],
                 [conversation_parts |-> [conversation_parts |-> NullV]],
                 [conversation_parts |-> [conversation_parts |-> List(<<>>)]] },
        r  \in { Dict0, [source |-> NullV], [conversation_message |-> Dict0],
                 [conversation_message |-> NullV, source |-> Dict0] }}

\* Timelines with a null element in the list of parts or a null author on
\* a part, before and after a hand-off.
NullPool ==
    { NullV,
      [part_type |-> "assignment", created_at |-> 1],
      [part_type |-> "comment", author |-> Contact, body |-> HiHtml,
       created_at |-> MaxTs],
      [part_type |-> "comment", author |-> NullV, body |-> Yo,
       created_at |-> 1],
      [part_type |-> "comment", author |-> NullV, body |-> <<" ">>] }

NullTimelines ==
    {[conversation_parts |-> [conversation_parts |-> List(ps)]] :
        ps \in SeqsUpTo(NullPool, MaxParts)}

\* Scenarios A and B of the specification (t=100, t=200 scaled to 1, 2).
ScenarioA ==
    [conversation_message |-> [author |-> Contact, body |-> HiHtml]]

ScenarioB ==
    [ ai_agent |-> [actor |-> [id |-> "fin"]],
      conversation_parts |-> [conversation_parts |-> List(<<
          [part_type |-> "ai_answer", body |-> HelloAmp],
          [part_type |-> "assignment", created_at |-> 1],
          [part_type |-> "comment", author |-> Admin, body |-> Yo,
           created_at |-> 2] >>)] ]

SplitInputs ==
    Timelines \cup Rooted \cup Signals \cup Malformed \cup NullTimelines
        \cup {ScenarioA, ScenarioB}

SplitIdle == spc = "off" /\ conv = Dict0 /\ res = Dict0

DoSplit ==
    /\ spc = "in"
    /\ res' = split(conv)
    /\ spc' = "done"
    /\ UNCHANGED <<conv, normVars, runVars>>

----------------------------------------------------------------------------
(* The collection run on bounded search results *)

\* Most summaries a search matches.
MaxResults == 2
\* Page size of the search collaborator (per_page, scaled down).
PerPage == 2

\* What the detail-fetch collaborator holds: 43 is a record split raises on.
DetailOf(cid) ==
    IF cid = "41" THEN ScenarioB
    ELSE IF cid = "43" THEN [ai_agent |-> NullV]
    ELSE ScenarioA

\* The summaries the searches return.  Conversation 42 is listed two ways,
\* as a search that runs later can see it; the summary of 44 has a null
\* ai_agent.
SummaryPool ==
    { [id |-> "41", created_at |-> 1709251200, ai_agent |-> [rating |-> 1]],
      [id |-> "42", created_at |-> 951782399,  ai_agent |-> Dict0],
      [id |-> "42", created_at |-> 0,          ai_agent |-> [rating |-> 1]],
      [id |-> "43", created_at |-> 86400,      ai_agent |-> [rating |-> 5]],
      [id |-> "44", created_at |-> 86400,      ai_agent |-> NullV] }

\* The summaries the LOW_CSAT query matches: ai_agent.rating < 2.
LowPool ==
    {s \in SummaryPool : Rating(s) # Raised /\ Rating(s) # Null /\ Rating(s) < 2}

RunIdle ==
    /\ pc = "off" /\ esc = <<>> /\ low = <<>> /\ cur = 1 /\ after = 0
    /\ pg = <<>> /\ pgi = 1 /\ nxt = 0 /\ seen = {} /\ user_rows = <<>>
    /\ convo_rows = <<>> /\ files = <<>> /\ events = <<>>

\* State at line 136, before the first request: seen=set(); user_rows=[];
\* convo_rows=[]; body=copy.deepcopy(ESCALATED) carries no cursor.
RunInit ==
    /\ pc = "search"
    /\ esc \in SeqsUpTo(SummaryPool, MaxResults)
    /\ low \in SeqsUpTo(LowPool, MaxResults)
    /\ cur = 1 /\ after = 0
    /\ pg = <<>> /\ pgi = 1 /\ nxt = 0
    /\ seen = {} /\ user_rows = <<>> /\ convo_rows = <<>>
    /\ files = <<>> /\ events = <<>>

Min(a, b) == IF a <= b THEN a ELSE b

\* Lines 113-114, the request answered: the collaborator returns the next
\* page (1..PerPage summaries while any are left) and, if more are left,
\* pages.next.starting_after.
PostOk ==
    /\ pc = "search"
    /\ \E k \in 1..PerPage :
         LET all  == Results(Searches[cur])
             last == Min(after + k, Len(all))
         IN  /\ pg'  = SubSeq(all, after + 1, last)
             /\ nxt' = IF last < Len(all) THEN last ELSE 0
    /\ pgi' = 1
    /\ pc' = "page"
    /\ events' = Append(events, [op |-> "search", q |-> Searches[cur],
                                 starting_after |-> after])
    /\ UNCHANGED <<esc, low, cur, after, seen, user_rows, convo_rows, files,
                   normVars, splitVars>>

\* Lines 113-114, the request failing: requests.post or raise_for_status
\* raises, nothing catches it, the script ends.
PostRaise ==
    /\ pc = "search"
    /\ pc' = "aborted"
    /\ events' = events \o << [op |-> "search", q |-> Searches[cur],
                               starting_after |-> after],
                              [op |-> "raise", at |-> "search"] >>
    /\ UNCHANGED <<esc, low, cur, after, pg, pgi, nxt, seen, user_rows,
                   convo_rows, files, normVars, splitVars>>

\* ingest(c) for the next summary of the page, line 125: already seen.
IngestSeen ==
    /\ pc = "page" /\ pgi <= Len(pg)
    /\ AlreadySeen(pg[pgi]["id"])
    /\ pgi' = pgi + 1
    /\ events' = Append(events, [op |-> "yield", s |-> pg[pgi]])
    /\ UNCHANGED <<pc, esc, low, cur, after, pg, nxt, seen, user_rows,
                   convo_rows, files, normVars, splitVars>>

\* ingest(c), lines 124-134, nothing raising: one row appended to each list.
IngestOk ==
    /\ pc = "page" /\ pgi <= Len(pg)
    /\ LET s   == pg[pgi]
           cid == s["id"]
           r   == split(DetailOf(cid))
       IN  /\ ~AlreadySeen(cid)
           /\ ~r.raised
           /\ ~RowRaises(s)
           /\ seen' = seen \cup {cid}
           /\ user_rows'  = Append(user_rows, user_row(s, r))
           /\ convo_rows' = Append(convo_rows, convo_row(s, r))
           /\ events' = events \o << [op |-> "yield", s |-> s],
                                     [op |-> "fetch", id |-> cid],
                                     [op |-> "split", id |-> cid] >>
    /\ pgi' = pgi + 1
    /\ UNCHANGED <<pc, esc, low, cur, after, pg, nxt, files, normVars,
                   splitVars>>

\* The failure of fetch_full caught and the conversation skipped.
IngestFetchRaise_Swallowed ==
    /\ pc = "page" /\ pgi <= Len(pg)
    /\ ~AlreadySeen(pg[pgi]["id"])
    /\ seen' = seen \cup {pg[pgi]["id"]}
    /\ events' = events \o << [op |-> "yield", s |-> pg[pgi]],
                              [op |-> "fetch", id |-> pg[pgi]["id"]],
                              [op |-> "raise", at |-> "fetch"] >>
    /\ pgi' = pgi + 1
    /\ UNCHANGED <<pc, esc, low, cur, after, pg, nxt, user_rows, convo_rows,
                   files, normVars, splitVars>>

\* ingest(c), line 127: fetch_full raises after seen.add(cid).
IngestFetchRaise ==
    /\ pc = "page" /\ pgi <= Len(pg)
    /\ LET s   == pg[pgi]
           cid == s["id"]
       IN  /\ ~AlreadySeen(cid)
           /\ seen' = seen \cup {cid}
           /\ events' = events \o << [op |-> "yield", s |-> s],
                                     [op |-> "fetch", id |-> cid],
                                     [op |-> "raise", at |-> "fetch"] >>
    /\ pc' = "aborted"
    /\ UNCHANGED <<esc, low, cur, after, pg, pgi, nxt, user_rows, convo_rows,
                   files, normVars, splitVars>>

\* ingest(c), line 128: split raises on the record fetched.
IngestSplitRaise ==
    /\ pc = "page" /\ pgi <= Len(pg)
    /\ LET s   == pg[pgi]
           cid == s["id"]
       IN  /\ ~AlreadySeen(cid)
           /\ split(DetailOf(cid)).raised
           /\ seen' = seen \cup {cid}
           /\ events' = events \o << [op |-> "yield", s |-> s],
                                     [op |-> "fetch", id |-> cid],
                                     [op |-> "split", id |-> cid],
                                     [op |-> "raise", at |-> "split"] >>
    /\ pc' = "aborted"
    /\ UNCHANGED <<esc, low, cur, after, pg, pgi, nxt, user_rows, convo_rows,
                   files, normVars, splitVars>>

\* ingest(c), lines 129-130: the row cannot be built from the summary,
\* after seen.add(cid), fetch_full and split.
IngestRowRaise ==
    /\ pc = "page" /\ pgi <= Len(pg)
    /\ LET s   == pg[pgi]
           cid == s["id"]
       IN  /\ ~AlreadySeen(cid)
           /\ ~split(DetailOf(cid)).raised
           /\ RowRaises(s)
           /\ seen' = seen \cup {cid}
           /\ events' = events \o << [op |-> "yield", s |-> s],
                                     [op |-> "fetch", id |-> cid],
                                     [op |-> "split", id |-> cid],
                                     [op |-> "raise", at |-> "row"] >>
    /\ pc' = "aborted"
    /\ UNCHANGED <<esc, low, cur, after, pg, pgi, nxt, user_rows, convo_rows,
                   files, normVars, splitVars>>

\* The cursor not written into the request body.
NextPage_CursorDropped ==
    /\ pc = "page" /\ pgi > Len(pg)
    /\ nxt # 0
    /\ pc' = "search"
    /\ UNCHANGED <<esc, low, cur, after, pg, pgi, nxt, seen, user_rows,
                   convo_rows, files, events, normVars, splitVars>>

\* Lines 116-118, a cursor returned: body["pagination"]["starting_after"]=nxt
NextPage ==
    /\ pc = "page" /\ pgi > Len(pg)
    /\ nxt # 0
    /\ after' = nxt
    /\ pc' = "search"
    /\ UNCHANGED <<esc, low, cur, pg, pgi, nxt, seen, user_rows, convo_rows,
                   files, events, normVars, splitVars>>

\* Line 117, no cursor: the generator ends; line 137 starts the next search
\* from a fresh copy of its template, or the loops are over.
SearchDone ==
    /\ pc = "page" /\ pgi > Len(pg)
    /\ nxt = 0
    /\ IF cur < Len(Searches)
       THEN cur' = cur + 1 /\ after' = 0 /\ pc' = "search"
       ELSE cur' = cur /\ after' = after /\ pc' = "write_esc"
    /\ UNCHANGED <<esc, low, pg, pgi, nxt, seen, user_rows, convo_rows,
                   files, events, normVars, splitVars>>

\* Lines 144-146
WriteEsc ==
    /\ pc = "write_esc"
    /\ files' = Append(files,
          [ name |-> "fin_escalations",
            fieldnames |-> <<"id", "created_at", "rating", "user_messages">>,
            rows |-> user_rows ])
    /\ pc' = "write_con"
    /\ UNCHANGED <<esc, low, cur, after, pg, pgi, nxt, seen, user_rows,
                   convo_rows, events, normVars, splitVars>>

\* Lines 148-150
WriteCon ==
    /\ pc = "write_con"
    /\ files' = Append(files,
          [ name |-> "fin_conversations",
            fieldnames |-> <<"id", "created_at", "rating", "full_conversation">>,
            rows |-> convo_rows ])
    /\ pc' = "done"
    /\ UNCHANGED <<esc, low, cur, after, pg, pgi, nxt, seen, user_rows,
                   convo_rows, events, normVars, splitVars>>

----------------------------------------------------------------------------
(* Specifications *)

\* The collection run.
Init == NormIdle /\ SplitIdle /\ RunInit

Next ==
    \/ PostOk
    \/ PostRaise
    \/ IngestSeen
    \/ IngestOk
    \/ IngestFetchRaise
    \/ IngestSplitRaise
    \/ IngestRowRaise
    \/ NextPage
    \/ SearchDone
    \/ WriteEsc
    \/ WriteCon

Spec == Init /\ [][Next]_vars

\* split applied to each detail of SplitInputs.
SplitInit ==
    /\ NormIdle /\ RunIdle
    /\ spc = "in" /\ conv \in SplitInputs /\ res = Dict0

SplitNext == DoSplit

SpecSplit == SplitInit /\ [][SplitNext]_vars

\* strip_html applied once and again to each string of NormInputs.
NormInit ==
    /\ SplitIdle /\ RunIdle
    /\ npc = "in" /\ x \in NormInputs /\ out1 = <<>> /\ out2 = <<>>

NormNext == Normalize \/ Renormalize

SpecNorm == NormInit /\ [][NormNext]_vars

----------------------------------------------------------------------------
(* Properties of strip_html (SpecNorm) *)

Chars(t) == {t[i] : i \in 1..Len(t)}

\* C8 as stated: strip_html(strip_html(x)) = strip_html(x) for every string
\* x.  Fails: "&lt;b&gt;" gives "<b>", which gives "".
C8_Idempotent == npc = "twice" => out2 = out1

\* C8 amended: strip_html(strip_html(x)) = strip_html(x) whenever
\* strip_html(x) holds neither "<" nor "&".
C8_IdempotentOnPlainText ==
    (npc = "twice" /\ Chars(out1) \cap {"<", "&"} = {}) => out2 = out1

\* An input with entity-encoded whitespace and an entity-encoded bracket
\* whose normal form is plain non-empty text, normalized twice.
C8_Witness ==
    /\ npc = "twice"
    /\ {"&", ";", "g"} \subseteq Chars(x)
    /\ ">" \in Chars(out1)
    /\ Len(x) >= 6 /\ <<"&", "n", "b", "s", "p", ";">> = SubSeq(x, 1, 6)
    /\ out1 # <<>>
    /\ Chars(out1) \cap {"<", "&"} = {}

----------------------------------------------------------------------------
(* Properties of split (SpecSplit) *)

Done == spc = "done" /\ ~res.raised

\* The parts of the detail that the loop handled and whose normalized body
\* is not empty.
Survivors == {i \in 1..Len(res.parts) : res.marks[i] \notin {"cut", "empty"}}

HasTs(p) == "created_at" \in DOMAIN p /\ p["created_at"] # Null

\* C2: no part whose created_at is at or after the cutoff (the first
\* assignment part's timestamp) contributes text to either transcript.
\* Fails: with the first assignment at created_at = 0 nothing is cut.
C2_NothingAtOrAfterCutoff ==
    (Done /\ res.cutoff # Null) =>
        \A i \in 1..Len(res.parts) :
            (HasTs(res.parts[i]) /\ res.parts[i]["created_at"] >= res.cutoff)
                => res.marks[i] \notin {"fin", "user"}

\* C2 where the truncation guard works: with a non-zero cutoff no part at or
\* after it contributes text to either transcript.
C2_NonZeroCutoff ==
    (Done /\ res.cutoff # Null /\ res.cutoff # 0) =>
        \A i \in 1..Len(res.parts) :
            (HasTs(res.parts[i]) /\ res.parts[i]["created_at"] >= res.cutoff)
                => res.marks[i] \notin {"fin", "user"}

\* The class the claim gives a part: the first matching rule.
ClaimedClass(p, fin_id) ==
    LET a == IF "author" \in DOMAIN p THEN p["author"] ELSE Dict0
        t == IF "type" \in DOMAIN a THEN a["type"] ELSE NoneV
    IN  IF \/ ("part_type" \in DOMAIN p /\ p["part_type"] = "ai_answer")
           \/ "ai_answer_type" \in DOMAIN p
           \/ t = "bot"
           \/ (fin_id \notin {NoneV, ""} /\ "id" \in DOMAIN a /\ a["id"] = fin_id)
        THEN "fin"
        ELSE IF t = "contact" \/ t = "user" \/ t = "lead" THEN "user"
        ELSE "none"

\* The increasing enumeration of a finite set of indices.
RECURSIVE Sorted(_)
Sorted(S) ==
    IF S = {} THEN <<>>
    ELSE LET m == CHOOSE a \in S : \A b \in S : a <= b
         IN  <<m>> \o Sorted(S \ {m})

NormBody(p) == strip_html(IF "body" \in DOMAIN p THEN p["body"] ELSE <<>>)

\* C3: every part that survives truncation with a non-empty normalized text
\* is classified by the first matching rule (agent signals, then customer
\* author types, else neither); the user-only transcript holds exactly the
\* customer-classified texts and the full transcript one line per agent- or
\* customer-classified part.  Stated of the details split returns on: a
\* part with a null author, a body and no ai_answer marker makes it raise.
C3_FirstMatchingRule ==
    Done =>
        LET cls(i) == ClaimedClass(res.parts[i], res.fin_id)
            users  == Sorted({i \in Survivors : cls(i) = "user"})
            lines  == Sorted({i \in Survivors : cls(i) \in {"fin", "user"}})
        IN  /\ \A i \in Survivors : res.marks[i] = cls(i)
            /\ res.user_lines = [k \in 1..Len(users) |-> NormBody(res.parts[users[k]])]
            /\ Len(res.convo_lines) = Len(lines)

\* A part with a customer author type and an agent signal, classified as
\* agent-authored and absent from the user-only transcript.
C3_Witness ==
    /\ Done
    /\ \E i \in Survivors :
          /\ "author" \in DOMAIN res.parts[i]
          /\ "type" \in DOMAIN res.parts[i]["author"]
          /\ res.parts[i]["author"]["type"] = "contact"
          /\ res.parts[i]["author"]["id"] = res.fin_id
          /\ res.marks[i] = "fin"
    /\ res.user_lines = <<>>

\* The transcript lines, in order, with the given tags in front of the texts.
TaggedLines(fin_tag, user_tag) ==
    LET lines == Sorted({i \in Survivors : res.marks[i] \in {"fin", "user"}})
    IN  [k \in 1..Len(lines) |->
            (IF res.marks[lines[k]] = "fin" THEN fin_tag ELSE user_tag)
            \o NormBody(res.parts[lines[k]])]

UserTexts ==
    LET users == Sorted({i \in Survivors : res.marks[i] = "user"})
    IN  [k \in 1..Len(users) |-> NormBody(res.parts[users[k]])]

\* lines joined by a blank line
RECURSIVE BlankLineJoined(_)
BlankLineJoined(ls) ==
    IF Len(ls) = 0 THEN <<>>
    ELSE IF Len(ls) = 1 THEN ls[1]
    ELSE BlankLineJoined(SubSeq(ls, 1, Len(ls) - 1)) \o <<"\n", "\n">> \o ls[Len(ls)]

\* C4 as stated: each line of the full transcript is its tag, a single
\* space and the text ("[Fin] <text>", "[User] <text>"); Scenario B gives
\* "[Fin] Hello&".  Fails: the agent tag is followed by two spaces.
C4_SingleSpaceAfterTag ==
    Done =>
        /\ res.full = BlankLineJoined(TaggedLines(
                          <<"[", "F", "i", "n", "]", " ">>,
                          <<"[", "U", "s", "e", "r", "]", " ">>))
        /\ res.user = BlankLineJoined(UserTexts)
        /\ (conv = ScenarioB =>
               res.full = <<"[", "F", "i", "n", "]", " ", "H", "e", "l", "l", "o", "&">>)

\* C4 amended: the full transcript is the encounter-order sequence of the
\* classified lines, "[Fin]" and two spaces before an agent text, "[User]"
\* and one space before a customer text, joined by a blank line; the
\* user-only transcript is the customer texts joined by a blank line.
\* Scenario B gives "[Fin]  Hello&", Scenario A ("Hi", "[User] Hi").
C4_FinTwoSpaces ==
    Done =>
        /\ res.full = BlankLineJoined(TaggedLines(
                          <<"[", "F", "i", "n", "]", " ", " ">>,
                          <<"[", "U", "s", "e", "r", "]", " ">>))
        /\ res.user = BlankLineJoined(UserTexts)
        /\ (conv = ScenarioB =>
               /\ res.user = <<>>
               /\ res.full = <<"[", "F", "i", "n", "]", " ", " ",
                               "H", "e", "l", "l", "o", "&">>)
        /\ (conv = ScenarioA =>
               /\ res.user = <<"H", "i">>
               /\ res.full = <<"[", "U", "s", "e", "r", "]", " ", "H", "i">>)

\* A transcript of an agent line, then a customer line, cut at a hand-off.
C4_Witness ==
    /\ Done
    /\ Len(res.parts) = 3 /\ Len(res.convo_lines) = 2
    /\ res.marks[1] = "fin" /\ res.marks[2] = "user" /\ res.marks[3] = "cut"
    /\ res.user = <<"H", "i">>

\* C5: a detail with no root message and an empty or missing part sequence
\* (ai_agent, actor or conversation_parts absent or null) gives ("", "")
\* and does not raise.  Fails: ai_agent null raises.
C5_MalformedGivesEmpty ==
    (spc = "done" /\ conv \in Malformed) =>
        (~res.raised /\ res.user = <<>> /\ res.full = <<>>)

\* C5 where the defaults work: with ai_agent and conversation_parts absent
\* or dicts (the actor absent, null or a dict) split gives ("", "").
C5_AbsentFieldsGiveEmpty ==
    (/\ spc = "done" /\ conv \in Malformed
     /\ \A k \in {"ai_agent", "conversation_parts"} :
           k \in DOMAIN conv => "null" \notin DOMAIN conv[k]
     /\ "conversation_parts" \in DOMAIN conv =>
           ("conversation_parts" \in DOMAIN conv["conversation_parts"] =>
               "null" \notin DOMAIN conv["conversation_parts"]["conversation_parts"]))
    => (~res.raised /\ res.user = <<>> /\ res.full = <<>>)

\* The cutoff the claim describes: the timestamp of the first assignment
\* part that carries one; Null when there is none.
RECURSIVE ClaimedCutoff(_)
ClaimedCutoff(parts) ==
    IF parts = <<>> THEN Null
    ELSE IF /\ "part_type" \in DOMAIN Head(parts)
            /\ Head(parts)["part_type"] = "assignment"
            /\ HasTs(Head(parts))
         THEN Head(parts)["created_at"]
         ELSE ClaimedCutoff(Tail(parts))

\* C9: the cutoff split uses is the timestamp of the first assignment part,
\* root message first, that carries a timestamp, an assignment part without
\* one being passed over; with no such part nothing is cut.
\* Fails: an assignment part whose created_at is null ends the scan.
C9_CutoffIsFirstTimestampedAssignment ==
    Done =>
        /\ res.cutoff = ClaimedCutoff(res.parts)
        /\ (ClaimedCutoff(res.parts) = Null =>
                \A i \in 1..Len(res.parts) : res.marks[i] # "cut")

----------------------------------------------------------------------------
(* Properties of the collection run (Spec) *)

IsYield(e)  == e.op = "yield"
IsRaise(e)  == e.op = "raise"
IsSearch(e) == e.op = "search"
IsFetch(e)  == e.op = "fetch"
IsSplit(e)  == e.op = "split"

\* The summaries consumed so far, in the order ingest received them.
Yielded ==
    LET ys == SelectSeq(events, IsYield)
    IN  [k \in 1..Len(ys) |-> ys[k].s]

Ids(rows) == [k \in 1..Len(rows) |-> rows[k]["id"]]

\* A sequence with every repetition of an earlier element removed.
RECURSIVE FirstOccurrences(_)
FirstOccurrences(q) ==
    IF q = <<>> THEN <<>>
    ELSE LET front == SubSeq(q, 1, Len(q) - 1)
         IN  IF \E k \in 1..Len(front) : front[k] = q[Len(q)]
             THEN FirstOccurrences(front)
             ELSE Append(FirstOccurrences(front), q[Len(q)])

IsPrefix(p, q) == Len(p) <= Len(q) /\ p = SubSeq(q, 1, Len(p))

Discovered == esc \o low

\* The summary that discovered conversation c.
FirstSummary(c) ==
    Discovered[CHOOSE i \in 1..Len(Discovered) :
                  /\ Discovered[i]["id"] = c
                  /\ \A j \in 1..(i - 1) : Discovered[j]["id"] # c]

\* C1: a completed run fetches and splits each distinct conversation id of
\* the two search results exactly once and has exactly one row for it in
\* user_rows and in convo_rows, built from the summary discovered first.
C1_OneRowPerConversation ==
    pc = "done" =>
        LET ids == {Discovered[i]["id"] : i \in 1..Len(Discovered)}
        IN  /\ Len(user_rows) = Cardinality(ids)
            /\ Len(convo_rows) = Cardinality(ids)
            /\ \A c \in ids :
                 LET f   == FirstSummary(c)
                     fe(e) == IsFetch(e) /\ e.id = c
                     se(e) == IsSplit(e) /\ e.id = c
                     rt  == IF "rating" \in DOMAIN f["ai_agent"]
                            THEN f["ai_agent"]["rating"] ELSE Null
                 IN  /\ Len(SelectSeq(events, fe)) = 1
                     /\ Len(SelectSeq(events, se)) = 1
                     /\ \E i \in 1..Len(user_rows) :
                          /\ user_rows[i]["id"] = c
                          /\ user_rows[i]["created_at"] = IsoFormat(f["created_at"])
                          /\ user_rows[i]["rating"] = rt
                          /\ user_rows[i]["user_messages"] = split(DetailOf(c)).user
                          /\ convo_rows[i]["id"] = c
                          /\ convo_rows[i]["created_at"] = IsoFormat(f["created_at"])
                          /\ convo_rows[i]["rating"] = rt
                          /\ convo_rows[i]["full_conversation"] = split(DetailOf(c)).full

\* A completed run in which both searches list one conversation, with
\* different summary fields, and another conversation besides.
C1_Witness ==
    /\ pc = "done"
    /\ Len(user_rows) = 2
    /\ \E i \in 1..Len(esc), j \in 1..Len(low) :
          esc[i]["id"] = low[j]["id"] /\ esc[i] # low[j]

\* C6: once a search request, a detail fetch, split or the building of a
\* row has raised, the run is over: the failure is the last thing that happened, and no CSV file
\* has been or is written.
C6_FailureAbortsWithoutFiles ==
    (\E k \in 1..Len(events) : IsRaise(events[k])) =>
        /\ pc = "aborted"
        /\ IsRaise(events[Len(events)])
        /\ \A k \in 1..(Len(events) - 1) : ~IsRaise(events[k])
        /\ files = <<>>

\* split raising after a conversation has already been collected.
C6_Witness ==
    /\ pc = "aborted"
    /\ Len(user_rows) >= 1
    /\ events[Len(events)] = [op |-> "raise", at |-> "split"]
    /\ files = <<>>

\* C7: summaries are consumed in discovery order, the ESCALATED results
\* (page by page, in page order) before LOW_CSAT issues any request; rows
\* are in the order their conversations were first discovered, and a
\* conversation's rows are appended before the next summary is consumed.
C7_DiscoveryOrder ==
    /\ IsPrefix(Yielded, Discovered)
    /\ \A k \in 1..Len(events) :
         (IsSearch(events[k]) /\ events[k].q = "LOW_CSAT") =>
             IsPrefix(esc, [j \in 1..Len(SelectSeq(SubSeq(events, 1, k), IsYield))
                               |-> Yielded[j]])
    /\ pc # "aborted" =>
         /\ Ids(user_rows)  = FirstOccurrences(Ids(Yielded))
         /\ Ids(convo_rows) = FirstOccurrences(Ids(Yielded))

\* A completed run whose first search took two requests and whose second
\* search discovered a conversation the first had not.
C7_Witness ==
    /\ pc = "done"
    /\ Len(SelectSeq(events, LAMBDA e : IsSearch(e) /\ e.q = "ESCALATED")) = 2
    /\ Len(user_rows) = 2
    /\ \A i \in 1..Len(esc) : esc[i]["id"] # user_rows[2]["id"]

\* C10: after every completed ingest call, and when the CSVs are written,
\* user_rows and convo_rows have the same length and agree at every index
\* on id, created_at and rating; their ids are pairwise distinct and are
\* exactly the members of seen.
C10_RowListsAgree ==
    pc # "aborted" =>
        /\ Len(user_rows) = Len(convo_rows)
        /\ \A i \in 1..Len(user_rows) :
             /\ user_rows[i]["id"] = convo_rows[i]["id"]
             /\ user_rows[i]["created_at"] = convo_rows[i]["created_at"]
             /\ user_rows[i]["rating"] = convo_rows[i]["rating"]
        /\ \A i, j \in 1..Len(user_rows) :
             user_rows[i]["id"] = user_rows[j]["id"] => i = j
        /\ {user_rows[i]["id"] : i \in 1..Len(user_rows)} = seen
        /\ \A k \in 1..Len(files) :
             files[k].rows = IF k = 1 THEN user_rows ELSE convo_rows

\* Both files written, two conversations collected, a repeated summary
\* having been skipped.
C10_Witness ==
    /\ pc = "done"
    /\ Len(files) = 2
    /\ Len(user_rows) = 2
    /\ Len(Yielded) > 2
    /\ \E i \in 1..2 : user_rows[i]["rating"] # Null

\* C9 where the scan works: when no assignment part carries a null
\* created_at, the cutoff is that of the first assignment part that has a
\* created_at, parts without the key being passed over.
C9_AbsentTimestampSkipped ==
    (Done /\ \A i \in 1..Len(res.parts) :
                "created_at" \in DOMAIN res.parts[i]
                    => res.parts[i]["created_at"] # Null)
    => res.cutoff = ClaimedCutoff(res.parts)

====
